---- MODULE Spec2Model ----
(***************************************************************************)
(* Banquet-hall management backend (backend/server.py): the document       *)
(* store's collections, the bearer-token guard, and the request handlers.  *)
(* Every `await db....` of a handler is one atomic step of the store; a    *)
(* handler with two awaits is two actions, and other requests may run      *)
(* between them.                                                           *)
(***************************************************************************)
EXTENDS Integers, Sequences, FiniteSets, TLC

\* ------------------------------------------------------------------ bounds
MaxUuid == 6          \* uuid4 values the model hands out (a counter, never reused)
MaxTicks == 4         \* how often the clock advances
TickHours == 8        \* hours the clock advances at a time
MaxTokens == 2        \* tokens the clients keep for later requests
MaxRequests == 4      \* requests the clients send in one run
MaxBoots == 2         \* how often the process starts
MaxDocs == 2          \* documents per catalogue collection

MaxClock == MaxTicks * TickHours

\* ------------------------------------------------------- program constants
TOKEN_EXPIRE_HOURS == 24
SECRET_KEY == "your-secret-key-change-in-production"

\* ------------------------------------------------------------------ inputs
Reqs == {1, 2}                                  \* concurrently served requests
OneAtATime == {1}                               \* one request at a time
Usernames == {"om_admin", "shiv_admin", "guest"}
Passwords == {"om123", "shiv123"}
NewHallName == "Guest Hall"

VARIABLES
    admins, halls, services, packages, shubh_dates, bookings, bills, settings,
    now,          \* datetime.now(timezone.utc), in hours
    next_uuid,    \* the next uuid4
    next_salt,    \* the next salt bcrypt draws (random, so never drawn before)
    issued,       \* tokens the clients hold
    phase,        \* "startup" until startup_event has run, then "serving"
    boots,        \* how often startup_event has run
    reqs,         \* the requests in flight, one per slot
    sent,         \* how many requests the clients have sent
    resp          \* the response sent last

store == <<admins, halls, services, packages, shubh_dates, bookings, bills, settings>>
vars == <<admins, halls, services, packages, shubh_dates, bookings, bills, settings,
          now, next_uuid, next_salt, issued, phase, boots, reqs, sent, resp>>

\* ------------------------------------------------------- the document store
\* A collection is the sequence of its documents in natural (insertion) order;
\* a query is a record of field/value pairs, matched exactly.
MatchesQuery(doc, query) ==
    \A f \in DOMAIN query : f \in DOMAIN doc /\ doc[f] = query[f]

Matching(coll, query) == {i \in 1..Len(coll) : MatchesQuery(coll[i], query)}

First(S) == CHOOSE x \in S : \A y \in S : x <= y

\* find_one: the first matching document, or None.
NoDoc == [none |-> TRUE]

find_one(coll, query) ==
    IF Matching(coll, query) = {} THEN NoDoc ELSE coll[First(Matching(coll, query))]

Found(doc) == "none" \notin DOMAIN doc

\* find(...).to_list(n): the matching documents, in order.
find(coll, query) == SelectSeq(coll, LAMBDA d : MatchesQuery(d, query))

insert_one(coll, doc) == Append(coll, doc)

\* $set: every field of `set` is written over the document's.
SetFields(doc, set) ==
    [f \in DOMAIN doc \cup DOMAIN set |-> IF f \in DOMAIN set THEN set[f] ELSE doc[f]]

\* update_one creating the document when none matches.
update_one_creating(coll, query, set) ==
    IF Matching(coll, query) = {} THEN Append(coll, SetFields(query, set))
    ELSE [coll EXCEPT ![First(Matching(coll, query))] = SetFields(@, set)]

\* update_one: the first matching document is updated; none matching is a no-op.
update_one(coll, query, set) ==
    IF Matching(coll, query) = {} THEN coll
    ELSE [coll EXCEPT ![First(Matching(coll, query))] = SetFields(@, set)]

\* update_one(..., upsert=True): none matching inserts the query's fields with
\* `set` applied to them.
update_one_upsert(coll, query, set) ==
    IF Matching(coll, query) = {} THEN Append(coll, SetFields(query, set))
    ELSE update_one(coll, query, set)

RemoveAt(coll, i) ==
    [j \in 1..(Len(coll) - 1) |-> IF j < i THEN coll[j] ELSE coll[j + 1]]

\* delete_one: removes the first matching document.
delete_one(coll, query) ==
    IF Matching(coll, query) = {} THEN coll
    ELSE RemoveAt(coll, First(Matching(coll, query)))

\* A projection {field: 0}: the document without those fields.
Project(doc, excluded) == [f \in DOMAIN doc \ excluded |-> doc[f]]

Docs(coll) == {coll[i] : i \in 1..Len(coll)}

\* ------------------------------------------------------- credential store
\* bcrypt: the hash carries its salt; verification recomputes with that salt.
hash_password(password, salt) == [salt |-> salt, digest |-> <<salt, password>>]

verify_password(plain_password, hashed_password) ==
    hashed_password.digest = <<hashed_password.salt, plain_password>>

\* ----------------------------------------------------------- token service
Sign(payload, key) == <<key, payload>>

jwt_encode(payload, key) == [fmt |-> "jwt", payload |-> payload, sig |-> Sign(payload, key)]

create_access_token(data, clock) ==
    jwt_encode([sub |-> data.sub, username |-> data.username,
                exp |-> clock + TOKEN_EXPIRE_HOURS], SECRET_KEY)

\* decode_token accepting a token at its expiration time (exp < clock).
decode_token_late(token, clock) ==
    IF token.fmt # "jwt"
    THEN [ok |-> FALSE, status |-> 401, detail |-> "Invalid token"]
    ELSE IF token.sig # Sign(token.payload, SECRET_KEY)
         THEN [ok |-> FALSE, status |-> 401, detail |-> "Invalid token"]
    ELSE IF token.payload.exp < clock
         THEN [ok |-> FALSE, status |-> 401, detail |-> "Token expired"]
    ELSE [ok |-> TRUE, status |-> 200, payload |-> token.payload]

\* jwt.decode: structure, then signature, then the exp claim.
decode_token(token, clock) ==
    IF token.fmt # "jwt" THEN [ok |-> FALSE, status |-> 401, detail |-> "Invalid token"]
    ELSE IF token.sig # Sign(token.payload, SECRET_KEY)
         THEN [ok |-> FALSE, status |-> 401, detail |-> "Invalid token"]
    ELSE IF token.payload.exp <= clock
         THEN [ok |-> FALSE, status |-> 401, detail |-> "Token expired"]
    ELSE [ok |-> TRUE, status |-> 200, payload |-> token.payload]

\* What a client can present: a token it was issued, one of those with the
\* payload altered (later exp, other subject) under the old signature, one signed
\* with a key that is not the server's, or a string that is no JWT at all.
Garbage == [fmt |-> "garbage", payload |-> [sub |-> 0, username |-> "", exp |-> 0],
            sig |-> <<>>]

Tampered(t) == [t EXCEPT !.payload.exp = MaxClock + 1]

Forged(t) == jwt_encode(t.payload, "not-the-key")

Presentable ==
    issued \cup {Tampered(t) : t \in issued} \cup {Forged(t) : t \in issued} \cup {Garbage}

\* ----------------------------------------------------------------- requests
NoArg == [none |-> TRUE]

\* A request that carries no Authorization header.
NoToken == [fmt |-> "none", payload |-> [sub |-> 0, username |-> "", exp |-> 0],
            sig |-> <<>>]

Idle == [op |-> "none", pc |-> "idle", token |-> NoToken, arg |-> NoArg, admin |-> NoDoc]

NoResponse == [op |-> "none", token |-> NoToken, status |-> 0, out |-> [none |-> TRUE]]

\* Slot r can take a request: the service is up and the clients send one more.
Free(r) == phase = "serving" /\ reqs[r].pc = "idle" /\ sent < MaxRequests

\* A response, with the route and the bearer token of the request it answers.
Response(op, token, status, out) ==
    [op |-> op, token |-> token, status |-> status, out |-> out]

\* The response of the request in slot r is sent, which frees the slot.
Respond(r, status, out) ==
    /\ resp' = Response(reqs[r].op, reqs[r].token, status, out)
    /\ reqs' = [reqs EXCEPT ![r] = Idle]

Detail(text) == [detail |-> text]
Message(text) == [message |-> text]

\* ------------------------------------------------------------------ startup
AdminDoc(id, username, password_hash, hall_name) ==
    [id |-> id, username |-> username, password_hash |-> password_hash,
     hall_name |-> hall_name]

HallDoc(id, name, capacity, approx_rent) ==
    [id |-> id, name |-> name, capacity |-> capacity, approx_rent |-> approx_rent]

\* The seeder's result on the admins collection a, with uuids from u on and
\* salts from s on.
SeedAdmins(a, u, s) ==
    LET admin1_exists == Found(find_one(a, [username |-> "om_admin"]))
        admin2_exists == Found(find_one(a, [username |-> "shiv_admin"]))
        a1 == IF ~admin1_exists
              THEN insert_one(a, AdminDoc(u, "om_admin", hash_password("om123", s),
                                          "Om Lawns Banquet Hall"))
              ELSE a
        u1 == IF ~admin1_exists THEN u + 1 ELSE u
        s1 == IF ~admin1_exists THEN s + 1 ELSE s
        a2 == IF ~admin2_exists
              THEN insert_one(a1, AdminDoc(u1, "shiv_admin", hash_password("shiv123", s1),
                                           "Shiv Lawns Banquet Hall"))
              ELSE a1
        u2 == IF ~admin2_exists THEN u1 + 1 ELSE u1
        s2 == IF ~admin2_exists THEN s1 + 1 ELSE s1
    IN [admins |-> a2, uuid |-> u2, salt |-> s2]

\* The seeder inserting the default halls whatever the halls collection holds.
SeedHalls_always(h, u) ==
    [halls |-> h \o <<HallDoc(u, "Om Lawns Banquet Hall", 500, 50000),
                      HallDoc(u + 1, "Shiv Lawns Banquet Hall", 800, 75000)>>,
     uuid |-> u + 2]

SeedHalls(h, u) ==
    IF Len(h) = 0
    THEN [halls |-> <<HallDoc(u, "Om Lawns Banquet Hall", 500, 50000),
                      HallDoc(u + 1, "Shiv Lawns Banquet Hall", 800, 75000)>>,
          uuid |-> u + 2]
    ELSE [halls |-> h, uuid |-> u]

\* startup_event's result on a store with the admins a and the halls h: the two
\* default admins where missing, then the two default halls if there is no hall.
seed(a, h, u, s) ==
    LET sa == SeedAdmins(a, u, s)
        sh == SeedHalls(h, sa.uuid)
    IN [admins |-> sa.admins, halls |-> sh.halls, uuid |-> sh.uuid, salt |-> sa.salt]

startup_event ==
    /\ phase = "startup"
    /\ LET seeded == seed(admins, halls, next_uuid, next_salt)
       IN /\ seeded.uuid <= MaxUuid + 1
          /\ admins' = seeded.admins
          /\ halls' = seeded.halls
          /\ next_uuid' = seeded.uuid
          /\ next_salt' = seeded.salt
    /\ phase' = "serving"
    /\ boots' = boots + 1
    /\ UNCHANGED <<services, packages, shubh_dates, bookings, bills, settings,
                   now, issued, reqs, sent, resp>>

Init ==
    /\ admins = <<>> /\ halls = <<>> /\ services = <<>> /\ packages = <<>>
    /\ shubh_dates = <<>> /\ bookings = <<>> /\ bills = <<>> /\ settings = <<>>
    /\ now = 0
    /\ next_uuid = 1
    /\ next_salt = 1
    /\ issued = {}
    /\ phase = "startup"
    /\ boots = 0
    /\ reqs = [r \in Reqs |-> Idle]
    /\ sent = 0
    /\ resp = NoResponse

\* A process restart: the requests in flight are dropped and startup_event runs
\* again on the store as it is.
Restart ==
    /\ phase = "serving"
    /\ boots < MaxBoots
    /\ phase' = "startup"
    /\ reqs' = [r \in Reqs |-> Idle]
    /\ UNCHANGED <<store, now, next_uuid, next_salt, issued, boots, sent, resp>>

\* The clock: time passes.
Tick ==
    /\ now + TickHours <= MaxClock
    /\ now' = now + TickHours
    /\ UNCHANGED <<store, next_uuid, next_salt, issued, phase, boots, reqs, sent, resp>>

\* -------------------------------------------------------------------- guard
\* The guard trusting a token that decodes, without looking its subject up.
get_current_admin_unchecked(token, clock, coll) ==
    LET decoded == decode_token(token, clock)
    IN IF ~decoded.ok
       THEN [ok |-> FALSE, status |-> decoded.status, detail |-> decoded.detail,
             admin |-> NoDoc]
       ELSE [ok |-> TRUE, status |-> 200, detail |-> "",
             admin |-> [id |-> decoded.payload.sub,
                        username |-> decoded.payload.username,
                        password_hash |-> hash_password("", 0),
                        hall_name |-> ""]]

\* get_current_admin: the token decoded, then its subject looked up by id.
get_current_admin(token, clock, coll) ==
    LET decoded == decode_token(token, clock)
    IN IF ~decoded.ok
       THEN [ok |-> FALSE, status |-> decoded.status, detail |-> decoded.detail,
             admin |-> NoDoc]
       ELSE LET admin == find_one(coll, [id |-> decoded.payload.sub])
            IN IF ~Found(admin)
               THEN [ok |-> FALSE, status |-> 401, detail |-> "Admin not found",
                     admin |-> NoDoc]
               ELSE [ok |-> TRUE, status |-> 200, detail |-> "", admin |-> admin]

\* A request to a protected route arrives in slot r: Depends(get_current_admin)
\* runs first, and the handler's body runs only with the admin it resolved.
Protected(r, op, arg) ==
    /\ Free(r)
    /\ sent' = sent + 1
    /\ \E token \in Presentable :
          LET g == get_current_admin(token, now, admins)
          IN IF g.ok
             THEN /\ reqs' = [reqs EXCEPT ![r] =
                         [op |-> op, pc |-> "body", token |-> token, arg |-> arg,
                          admin |-> g.admin]]
                  /\ resp' = resp
             ELSE /\ resp' = Response(op, token, g.status, Detail(g.detail))
                  /\ reqs' = reqs

InBody(r, op) == phase = "serving" /\ reqs[r].op = op /\ reqs[r].pc = "body"

\* ----------------------------------------------------------------- /auth
LoginResponse(admin, token) ==
    [token |-> token,
     admin |-> [id |-> admin.id, username |-> admin.username,
                hall_name |-> admin.hall_name]]

\* login's result for the credentials given, on the admins collection `coll`.
login_result(username, password, coll, clock) ==
    LET admin == find_one(coll, [username |-> username])
    IN IF ~Found(admin) \/ ~verify_password(password, admin.password_hash)
       THEN [status |-> 401, out |-> Detail("Invalid credentials")]
       ELSE [status |-> 200,
             out |-> LoginResponse(admin,
                        create_access_token([sub |-> admin.id,
                                             username |-> admin.username], clock))]

login(r) ==
    /\ Free(r)
    /\ \E username \in Usernames, password \in Passwords :
          LET res == login_result(username, password, admins, now)
          IN /\ resp' = Response("login", NoToken, res.status, res.out)
             /\ issued' = IF /\ res.status = 200
                             /\ Cardinality(issued \cup {res.out.token}) <= MaxTokens
                          THEN issued \cup {res.out.token}
                          ELSE issued
    /\ sent' = sent + 1
    /\ UNCHANGED <<store, now, next_uuid, next_salt, phase, boots, reqs>>

recv_change_password(r) ==
    /\ \E old \in Passwords, new \in Passwords :
          Protected(r, "change_password", [old_password |-> old, new_password |-> new])
    /\ UNCHANGED <<store, now, next_uuid, next_salt, issued, phase, boots>>

change_password(r) ==
    /\ InBody(r, "change_password")
    /\ IF ~verify_password(reqs[r].arg.old_password, reqs[r].admin.password_hash)
       THEN /\ Respond(r, 400, Detail("Invalid old password"))
            /\ admins' = admins
            /\ next_salt' = next_salt
       ELSE /\ admins' = update_one(admins, [id |-> reqs[r].admin.id],
                            [password_hash |->
                                hash_password(reqs[r].arg.new_password, next_salt)])
            /\ next_salt' = next_salt + 1
            /\ Respond(r, 200, Message("Password changed successfully"))
    /\ UNCHANGED <<halls, services, packages, shubh_dates, bookings, bills, settings,
                   now, next_uuid, issued, phase, boots, sent>>

\* --------------------------------------------------------------- /admins
recv_create_admin(r) ==
    /\ \E username \in Usernames, password \in Passwords :
          Protected(r, "create_admin",
                    [username |-> username, password |-> password,
                     hall_name |-> NewHallName])
    /\ UNCHANGED <<store, now, next_uuid, next_salt, issued, phase, boots>>

\* create_admin up to its first await: the lookup by username.
create_admin_find(r) ==
    /\ InBody(r, "create_admin")
    /\ LET existing == find_one(admins, [username |-> reqs[r].arg.username])
       IN IF Found(existing)
          THEN Respond(r, 400, Detail("Username already exists"))
          ELSE /\ reqs' = [reqs EXCEPT ![r].pc = "insert"]
               /\ resp' = resp
    /\ UNCHANGED <<store, now, next_uuid, next_salt, issued, phase, boots, sent>>

\* create_admin from there: the Admin built (a new uuid, the password hashed) and
\* inserted.
create_admin_insert(r) ==
    /\ phase = "serving" /\ reqs[r].op = "create_admin" /\ reqs[r].pc = "insert"
    /\ next_uuid <= MaxUuid
    /\ admins' = insert_one(admins,
                     AdminDoc(next_uuid, reqs[r].arg.username,
                              hash_password(reqs[r].arg.password, next_salt),
                              reqs[r].arg.hall_name))
    /\ next_uuid' = next_uuid + 1
    /\ next_salt' = next_salt + 1
    /\ Respond(r, 200, [message |-> "Admin created successfully", id |-> next_uuid])
    /\ UNCHANGED <<halls, services, packages, shubh_dates, bookings, bills, settings,
                   now, issued, phase, boots, sent>>

recv_delete_admin(r) ==
    /\ \E admin_id \in 1..(next_uuid - 1) :
          Protected(r, "delete_admin", [admin_id |-> admin_id])
    /\ UNCHANGED <<store, now, next_uuid, next_salt, issued, phase, boots>>

\* delete_admin's body without the check against the acting admin's id.
delete_admin_result_any(admin_id, admin, coll) ==
    [status |-> 200, out |-> Message("Admin deleted successfully"),
     admins |-> delete_one(coll, [id |-> admin_id])]

\* delete_admin's body for the path id and the admin the guard resolved.
delete_admin_result(admin_id, admin, coll) ==
    IF admin_id = admin.id
    THEN [status |-> 400, out |-> Detail("Cannot delete your own account"),
          admins |-> coll]
    ELSE [status |-> 200, out |-> Message("Admin deleted successfully"),
          admins |-> delete_one(coll, [id |-> admin_id])]

delete_admin(r) ==
    /\ InBody(r, "delete_admin")
    /\ LET res == delete_admin_result(reqs[r].arg.admin_id, reqs[r].admin, admins)
       IN /\ admins' = res.admins
          /\ Respond(r, res.status, res.out)
    /\ UNCHANGED <<halls, services, packages, shubh_dates, bookings, bills, settings,
                   now, next_uuid, next_salt, issued, phase, boots, sent>>

\* ------------------------------------------------------- catalogue routes
\* Identifiers are strings in the program. Here a uuid4 is a number 1..MaxUuid, a
\* string the client chose is one of ClientIds, EmptyStr is "" and Absent is None
\* (a field or query parameter that was not sent).
Absent == -1
EmptyStr == 0
ClientIds == {101}
Names == {"A", "B"}

\* Python's truth value of an Optional[str]: None and "" are false.
Truthy(x) == x # Absent /\ x # EmptyStr

\* The ids a client puts in a path: those of the collection's documents and
\* strings of its own.
Ids(coll) == {coll[i].id : i \in 1..Len(coll)}
PathIds(coll) == Ids(coll) \cup ClientIds

\* The id a pydantic model ends up with: the body's, or default_factory's uuid4.
ModelId(body_id) == IF body_id = Absent THEN next_uuid ELSE body_id

\* A request body parsed into its model: needs a uuid when it carries no id.
Parsed(body_id) ==
    /\ body_id = Absent => next_uuid <= MaxUuid
    /\ next_uuid' = IF body_id = Absent THEN next_uuid + 1 ELSE next_uuid

\* datetime.isoformat() and datetime.fromisoformat()
isoformat(t) == <<"iso", t>>
fromisoformat(text) == text[2]

HallBody(id, name) ==
    [id |-> id, name |-> name, capacity |-> 500, approx_rent |-> 50000]
ServiceBody(id, hall_id, name) == [id |-> id, hall_id |-> hall_id, name |-> name]
PackageBody(id, hall_id, name) == [id |-> id, hall_id |-> hall_id, name |-> name]
ShubhDateBody(id, hall_id, date) == [id |-> id, hall_id |-> hall_id, date |-> date]
BookingBody(id, hall_id, status, booking_date) ==
    [id |-> id, hall_id |-> hall_id, customer_phone |-> "9800000000",
     status |-> status, booking_date |-> booking_date]
BillBody(id, hall_id, total_amount, created_at) ==
    [id |-> id, hall_id |-> hall_id, total_amount |-> total_amount,
     created_at |-> created_at]

HallIdsSent == {3, EmptyStr}
Statuses == {"booked", "cancelled"}

\* PUT /halls/{hall_id}
recv_update_hall(r) ==
    /\ \E hall_id \in PathIds(halls), id \in ClientIds \cup {Absent}, name \in Names :
          Protected(r, "update_hall", [path_id |-> hall_id, id |-> id, name |-> name])
    /\ UNCHANGED <<store, now, next_uuid, next_salt, issued, phase, boots>>

update_hall(r) ==
    /\ InBody(r, "update_hall")
    /\ Parsed(reqs[r].arg.id)
    /\ halls' = update_one(halls, [id |-> reqs[r].arg.path_id],
                    HallBody(ModelId(reqs[r].arg.id), reqs[r].arg.name))
    /\ Respond(r, 200, Message("Hall updated successfully"))
    /\ UNCHANGED <<admins, services, packages, shubh_dates, bookings, bills, settings,
                   now, next_salt, issued, phase, boots, sent>>

\* POST /services
recv_create_service(r) ==
    /\ \E id \in ClientIds \cup {Absent}, name \in Names :
          Protected(r, "create_service", [id |-> id, hall_id |-> 3, name |-> name])
    /\ UNCHANGED <<store, now, next_uuid, next_salt, issued, phase, boots>>

create_service(r) ==
    /\ InBody(r, "create_service")
    /\ Len(services) < MaxDocs
    /\ Parsed(reqs[r].arg.id)
    /\ LET service == ServiceBody(ModelId(reqs[r].arg.id), reqs[r].arg.hall_id,
                                  reqs[r].arg.name)
       IN /\ services' = insert_one(services, service)
          /\ Respond(r, 200, service)
    /\ UNCHANGED <<admins, halls, packages, shubh_dates, bookings, bills, settings,
                   now, next_salt, issued, phase, boots, sent>>

\* PUT /services/{service_id}
recv_update_service(r) ==
    /\ \E service_id \in PathIds(services), id \in ClientIds \cup {Absent}, name \in Names :
          Protected(r, "update_service",
                    [path_id |-> service_id, id |-> id, hall_id |-> 3, name |-> name])
    /\ UNCHANGED <<store, now, next_uuid, next_salt, issued, phase, boots>>

update_service(r) ==
    /\ InBody(r, "update_service")
    /\ Parsed(reqs[r].arg.id)
    /\ services' = update_one(services, [id |-> reqs[r].arg.path_id],
                       ServiceBody(ModelId(reqs[r].arg.id), reqs[r].arg.hall_id,
                                   reqs[r].arg.name))
    /\ Respond(r, 200, Message("Service updated successfully"))
    /\ UNCHANGED <<admins, halls, packages, shubh_dates, bookings, bills, settings,
                   now, next_salt, issued, phase, boots, sent>>

\* DELETE /services/{service_id}
recv_delete_service(r) ==
    /\ \E service_id \in PathIds(services) : Protected(r, "delete_service", [path_id |-> service_id])
    /\ UNCHANGED <<store, now, next_uuid, next_salt, issued, phase, boots>>

delete_service(r) ==
    /\ InBody(r, "delete_service")
    /\ services' = delete_one(services, [id |-> reqs[r].arg.path_id])
    /\ Respond(r, 200, Message("Service deleted successfully"))
    /\ UNCHANGED <<admins, halls, packages, shubh_dates, bookings, bills, settings,
                   now, next_uuid, next_salt, issued, phase, boots, sent>>

\* POST /packages
recv_create_package(r) ==
    /\ \E id \in ClientIds \cup {Absent}, name \in Names :
          Protected(r, "create_package", [id |-> id, hall_id |-> 3, name |-> name])
    /\ UNCHANGED <<store, now, next_uuid, next_salt, issued, phase, boots>>

create_package(r) ==
    /\ InBody(r, "create_package")
    /\ Len(packages) < MaxDocs
    /\ Parsed(reqs[r].arg.id)
    /\ LET package == PackageBody(ModelId(reqs[r].arg.id), reqs[r].arg.hall_id,
                                  reqs[r].arg.name)
       IN /\ packages' = insert_one(packages, package)
          /\ Respond(r, 200, package)
    /\ UNCHANGED <<admins, halls, services, shubh_dates, bookings, bills, settings,
                   now, next_salt, issued, phase, boots, sent>>

\* PUT /packages/{package_id}
recv_update_package(r) ==
    /\ \E package_id \in PathIds(packages), id \in ClientIds \cup {Absent}, name \in Names :
          Protected(r, "update_package",
                    [path_id |-> package_id, id |-> id, hall_id |-> 3, name |-> name])
    /\ UNCHANGED <<store, now, next_uuid, next_salt, issued, phase, boots>>

update_package(r) ==
    /\ InBody(r, "update_package")
    /\ Parsed(reqs[r].arg.id)
    /\ packages' = update_one(packages, [id |-> reqs[r].arg.path_id],
                       PackageBody(ModelId(reqs[r].arg.id), reqs[r].arg.hall_id,
                                   reqs[r].arg.name))
    /\ Respond(r, 200, Message("Package updated successfully"))
    /\ UNCHANGED <<admins, halls, services, shubh_dates, bookings, bills, settings,
                   now, next_salt, issued, phase, boots, sent>>

\* DELETE /packages/{package_id}
recv_delete_package(r) ==
    /\ \E package_id \in PathIds(packages) : Protected(r, "delete_package", [path_id |-> package_id])
    /\ UNCHANGED <<store, now, next_uuid, next_salt, issued, phase, boots>>

delete_package(r) ==
    /\ InBody(r, "delete_package")
    /\ packages' = delete_one(packages, [id |-> reqs[r].arg.path_id])
    /\ Respond(r, 200, Message("Package deleted successfully"))
    /\ UNCHANGED <<admins, halls, services, shubh_dates, bookings, bills, settings,
                   now, next_uuid, next_salt, issued, phase, boots, sent>>

\* POST /shubh-dates
recv_create_shubh_date(r) ==
    /\ \E id \in ClientIds \cup {Absent} :
          Protected(r, "create_shubh_date", [id |-> id, hall_id |-> 3, date |-> "2026-01-01"])
    /\ UNCHANGED <<store, now, next_uuid, next_salt, issued, phase, boots>>

create_shubh_date(r) ==
    /\ InBody(r, "create_shubh_date")
    /\ Len(shubh_dates) < MaxDocs
    /\ Parsed(reqs[r].arg.id)
    /\ LET shubh_date == ShubhDateBody(ModelId(reqs[r].arg.id), reqs[r].arg.hall_id,
                                       reqs[r].arg.date)
       IN /\ shubh_dates' = insert_one(shubh_dates, shubh_date)
          /\ Respond(r, 200, shubh_date)
    /\ UNCHANGED <<admins, halls, services, packages, bookings, bills, settings,
                   now, next_salt, issued, phase, boots, sent>>

\* DELETE /shubh-dates/{date_id}
recv_delete_shubh_date(r) ==
    /\ \E date_id \in PathIds(shubh_dates) : Protected(r, "delete_shubh_date", [path_id |-> date_id])
    /\ UNCHANGED <<store, now, next_uuid, next_salt, issued, phase, boots>>

delete_shubh_date(r) ==
    /\ InBody(r, "delete_shubh_date")
    /\ shubh_dates' = delete_one(shubh_dates, [id |-> reqs[r].arg.path_id])
    /\ Respond(r, 200, Message("Shubh date deleted successfully"))
    /\ UNCHANGED <<admins, halls, services, packages, bookings, bills, settings,
                   now, next_uuid, next_salt, issued, phase, boots, sent>>

\* ----------------------------------------------------------------- bookings
\* The listing's query without the status filter.
public_bookings_query_any_status(hall_id) ==
    IF Truthy(hall_id) THEN [hall_id |-> hall_id] ELSE [f \in {} |-> ""]

\* GET /public/bookings: the listing for a hall_id query parameter.
public_bookings_query(hall_id) ==
    IF Truthy(hall_id) THEN [hall_id |-> hall_id, status |-> "booked"]
    ELSE [status |-> "booked"]

ToList(docs, n) == SubSeq(docs, 1, IF Len(docs) < n THEN Len(docs) ELSE n)

public_bookings(coll, hall_id) ==
    LET found == ToList(find(coll, public_bookings_query(hall_id)), 1000)
    IN [i \in 1..Len(found) |-> Project(found[i], {"customer_phone"})]

get_public_bookings(r) ==
    /\ Free(r)
    /\ sent' = sent + 1
    /\ \E hall_id \in HallIdsSent \cup {Absent} :
          resp' = Response("get_public_bookings", NoToken, 200,
                           [bookings |-> public_bookings(bookings, hall_id)])
    /\ UNCHANGED <<store, now, next_uuid, next_salt, issued, phase, boots, reqs>>

\* POST /bookings
recv_create_booking(r) ==
    /\ \E id \in ClientIds \cup {Absent}, hall_id \in HallIdsSent, status \in Statuses :
          Protected(r, "create_booking", [id |-> id, hall_id |-> hall_id, status |-> status])
    /\ UNCHANGED <<store, now, next_uuid, next_salt, issued, phase, boots>>

create_booking(r) ==
    /\ InBody(r, "create_booking")
    /\ Len(bookings) < MaxDocs
    /\ Parsed(reqs[r].arg.id)
    /\ LET booking == BookingBody(ModelId(reqs[r].arg.id), reqs[r].arg.hall_id,
                                  reqs[r].arg.status, now)
           doc == [booking EXCEPT !.booking_date = isoformat(booking.booking_date)]
       IN /\ bookings' = insert_one(bookings, doc)
          /\ Respond(r, 200, booking)
    /\ UNCHANGED <<admins, halls, services, packages, shubh_dates, bills, settings,
                   now, next_salt, issued, phase, boots, sent>>

\* PUT /bookings/{booking_id}
recv_update_booking(r) ==
    /\ \E booking_id \in PathIds(bookings), id \in ClientIds \cup {Absent},
          hall_id \in HallIdsSent, status \in Statuses :
          Protected(r, "update_booking",
                    [path_id |-> booking_id, id |-> id, hall_id |-> hall_id,
                     status |-> status])
    /\ UNCHANGED <<store, now, next_uuid, next_salt, issued, phase, boots>>

update_booking(r) ==
    /\ InBody(r, "update_booking")
    /\ Parsed(reqs[r].arg.id)
    /\ LET booking == BookingBody(ModelId(reqs[r].arg.id), reqs[r].arg.hall_id,
                                  reqs[r].arg.status, now)
           doc == [booking EXCEPT !.booking_date = isoformat(booking.booking_date)]
       IN bookings' = update_one(bookings, [id |-> reqs[r].arg.path_id], doc)
    /\ Respond(r, 200, Message("Booking updated successfully"))
    /\ UNCHANGED <<admins, halls, services, packages, shubh_dates, bills, settings,
                   now, next_salt, issued, phase, boots, sent>>

\* DELETE /bookings/{booking_id}
recv_delete_booking(r) ==
    /\ \E booking_id \in PathIds(bookings) : Protected(r, "delete_booking", [path_id |-> booking_id])
    /\ UNCHANGED <<store, now, next_uuid, next_salt, issued, phase, boots>>

delete_booking(r) ==
    /\ InBody(r, "delete_booking")
    /\ bookings' = delete_one(bookings, [id |-> reqs[r].arg.path_id])
    /\ Respond(r, 200, Message("Booking deleted successfully"))
    /\ UNCHANGED <<admins, halls, services, packages, shubh_dates, bills, settings,
                   now, next_uuid, next_salt, issued, phase, boots, sent>>

\* -------------------------------------------------------------------- bills
Amounts == {1000, 2000}

\* POST /bills
recv_create_bill(r) ==
    /\ \E id \in ClientIds \cup {Absent}, total_amount \in Amounts :
          Protected(r, "create_bill",
                    [id |-> id, hall_id |-> 3, total_amount |-> total_amount])
    /\ UNCHANGED <<store, now, next_uuid, next_salt, issued, phase, boots>>

create_bill(r) ==
    /\ InBody(r, "create_bill")
    /\ Len(bills) < MaxDocs
    /\ Parsed(reqs[r].arg.id)
    /\ LET bill == BillBody(ModelId(reqs[r].arg.id), reqs[r].arg.hall_id,
                            reqs[r].arg.total_amount, now)
           doc == [bill EXCEPT !.created_at = isoformat(bill.created_at)]
       IN /\ bills' = insert_one(bills, doc)
          /\ Respond(r, 200, bill)
    /\ UNCHANGED <<admins, halls, services, packages, shubh_dates, bookings, settings,
                   now, next_salt, issued, phase, boots, sent>>

\* PUT /bills/{bill_id}
recv_update_bill(r) ==
    /\ \E bill_id \in PathIds(bills), id \in ClientIds \cup {Absent}, total_amount \in Amounts :
          Protected(r, "update_bill",
                    [path_id |-> bill_id, id |-> id, hall_id |-> 3,
                     total_amount |-> total_amount])
    /\ UNCHANGED <<store, now, next_uuid, next_salt, issued, phase, boots>>

update_bill(r) ==
    /\ InBody(r, "update_bill")
    /\ Parsed(reqs[r].arg.id)
    /\ LET bill == BillBody(ModelId(reqs[r].arg.id), reqs[r].arg.hall_id,
                            reqs[r].arg.total_amount, now)
           doc == [bill EXCEPT !.created_at = isoformat(bill.created_at)]
       IN bills' = update_one(bills, [id |-> reqs[r].arg.path_id], doc)
    /\ Respond(r, 200, Message("Bill updated successfully"))
    /\ UNCHANGED <<admins, halls, services, packages, shubh_dates, bookings, settings,
                   now, next_salt, issued, phase, boots, sent>>

\* DELETE /bills/{bill_id}
recv_delete_bill(r) ==
    /\ \E bill_id \in PathIds(bills) : Protected(r, "delete_bill", [path_id |-> bill_id])
    /\ UNCHANGED <<store, now, next_uuid, next_salt, issued, phase, boots>>

delete_bill(r) ==
    /\ InBody(r, "delete_bill")
    /\ bills' = delete_one(bills, [id |-> reqs[r].arg.path_id])
    /\ Respond(r, 200, Message("Bill deleted successfully"))
    /\ UNCHANGED <<admins, halls, services, packages, shubh_dates, bookings, settings,
                   now, next_uuid, next_salt, issued, phase, boots, sent>>

\* ----------------------------------------------------------------- settings
SettingsDoc(id, signup_enabled, language, theme) ==
    [id |-> id, signup_enabled |-> signup_enabled, language |-> language,
     theme |-> theme]

\* Settings(): the model's defaults.
DefaultSettings == SettingsDoc("settings", FALSE, "en", "light")

\* The bodies the clients PUT: the id given or left to its default, with the
\* default values or others.
SettingsBodies ==
    {SettingsDoc(id, v[1], v[2], v[3]) :
        id \in {"settings", "other"},
        v \in {<<FALSE, "en", "light">>, <<TRUE, "mr", "dark">>}}

\* GET /settings up to its first await: the lookup of the singleton.
get_settings_find(r) ==
    /\ Free(r)
    /\ sent' = sent + 1
    /\ LET found == find_one(settings, [id |-> "settings"])
       IN IF ~Found(found)
          THEN /\ reqs' = [reqs EXCEPT ![r] =
                      [op |-> "get_settings", pc |-> "insert", token |-> NoToken,
                       arg |-> NoArg, admin |-> NoDoc]]
               /\ resp' = resp
          ELSE /\ resp' = Response("get_settings", NoToken, 200, found)
               /\ reqs' = reqs
    /\ UNCHANGED <<store, now, next_uuid, next_salt, issued, phase, boots>>

\* GET /settings on a miss: the defaults inserted and returned.
get_settings_insert(r) ==
    /\ phase = "serving" /\ reqs[r].op = "get_settings" /\ reqs[r].pc = "insert"
    /\ settings' = insert_one(settings, DefaultSettings)
    /\ Respond(r, 200, DefaultSettings)
    /\ UNCHANGED <<admins, halls, services, packages, shubh_dates, bookings, bills,
                   now, next_uuid, next_salt, issued, phase, boots, sent>>

\* PUT /settings
recv_update_settings(r) ==
    /\ \E body \in SettingsBodies : Protected(r, "update_settings", body)
    /\ UNCHANGED <<store, now, next_uuid, next_salt, issued, phase, boots>>

update_settings(r) ==
    /\ InBody(r, "update_settings")
    /\ settings' = update_one_upsert(settings, [id |-> "settings"], reqs[r].arg)
    /\ Respond(r, 200, Message("Settings updated successfully"))
    /\ UNCHANGED <<admins, halls, services, packages, shubh_dates, bookings, bills,
                   now, next_uuid, next_salt, issued, phase, boots, sent>>

\* ------------------------------------------------------------ specifications
\* The admin routes under concurrent requests and restarts (the clock stands
\* still).
Next ==
    \/ startup_event
    \/ Restart
    \/ \E r \in Reqs : login(r)
    \/ \E r \in Reqs : recv_create_admin(r)
    \/ \E r \in Reqs : create_admin_find(r)
    \/ \E r \in Reqs : create_admin_insert(r)
    \/ \E r \in Reqs : recv_delete_admin(r)
    \/ \E r \in Reqs : recv_change_password(r)
    \/ \E r \in Reqs : change_password(r)
    \/ \E r \in Reqs : delete_admin(r)

Spec == Init /\ [][Next]_vars

\* The settings singleton under concurrent reads and writes.
NextSettings ==
    \/ startup_event
    \/ \E r \in Reqs : login(r)
    \/ \E r \in Reqs : get_settings_find(r)
    \/ \E r \in Reqs : get_settings_insert(r)
    \/ \E r \in Reqs : recv_update_settings(r)
    \/ \E r \in Reqs : update_settings(r)

SpecSettings == Init /\ [][NextSettings]_vars

\* The routes that create and update halls, services, packages, bookings and
\* bills.
NextCrud ==
    \/ startup_event
    \/ \E r \in OneAtATime : login(r)
    \/ \E r \in OneAtATime : recv_update_hall(r)
    \/ \E r \in OneAtATime : update_hall(r)
    \/ \E r \in OneAtATime : recv_create_service(r)
    \/ \E r \in OneAtATime : create_service(r)
    \/ \E r \in OneAtATime : recv_update_service(r)
    \/ \E r \in OneAtATime : update_service(r)
    \/ \E r \in OneAtATime : recv_create_package(r)
    \/ \E r \in OneAtATime : create_package(r)
    \/ \E r \in OneAtATime : recv_update_package(r)
    \/ \E r \in OneAtATime : update_package(r)
    \/ \E r \in OneAtATime : recv_create_booking(r)
    \/ \E r \in OneAtATime : create_booking(r)
    \/ \E r \in OneAtATime : recv_update_booking(r)
    \/ \E r \in OneAtATime : update_booking(r)
    \/ \E r \in OneAtATime : recv_create_bill(r)
    \/ \E r \in OneAtATime : create_bill(r)
    \/ \E r \in OneAtATime : recv_update_bill(r)
    \/ \E r \in OneAtATime : update_bill(r)

SpecCrud == Init /\ [][NextCrud]_vars

\* The bookings, their public listing, and the auspicious dates.
NextBookings ==
    \/ startup_event
    \/ \E r \in OneAtATime : login(r)
    \/ \E r \in OneAtATime : get_public_bookings(r)
    \/ \E r \in OneAtATime : recv_create_shubh_date(r)
    \/ \E r \in OneAtATime : create_shubh_date(r)
    \/ \E r \in OneAtATime : recv_delete_shubh_date(r)
    \/ \E r \in OneAtATime : delete_shubh_date(r)
    \/ \E r \in OneAtATime : recv_delete_service(r)
    \/ \E r \in OneAtATime : delete_service(r)
    \/ \E r \in OneAtATime : recv_delete_package(r)
    \/ \E r \in OneAtATime : delete_package(r)
    \/ \E r \in OneAtATime : recv_delete_bill(r)
    \/ \E r \in OneAtATime : delete_bill(r)
    \/ \E r \in OneAtATime : recv_create_booking(r)
    \/ \E r \in OneAtATime : create_booking(r)
    \/ \E r \in OneAtATime : recv_update_booking(r)
    \/ \E r \in OneAtATime : update_booking(r)
    \/ \E r \in OneAtATime : recv_delete_booking(r)
    \/ \E r \in OneAtATime : delete_booking(r)

SpecBookings == Init /\ [][NextBookings]_vars

\* Tokens over time: the clock runs while the admin routes are served, one
\* request at a time.
NextToken ==
    \/ startup_event
    \/ Tick
    \/ \E r \in OneAtATime : login(r)
    \/ \E r \in OneAtATime : recv_change_password(r)
    \/ \E r \in OneAtATime : change_password(r)
    \/ \E r \in OneAtATime : recv_delete_admin(r)
    \/ \E r \in OneAtATime : delete_admin(r)

SpecToken == Init /\ [][NextToken]_vars

\* The update routes, with documents to update in halls (seeded) and services,
\* and none in packages, bookings and bills.
NextUpdate ==
    \/ startup_event
    \/ \E r \in OneAtATime : login(r)
    \/ \E r \in OneAtATime : recv_update_hall(r)
    \/ \E r \in OneAtATime : update_hall(r)
    \/ \E r \in OneAtATime : recv_create_service(r)
    \/ \E r \in OneAtATime : create_service(r)
    \/ \E r \in OneAtATime : recv_update_service(r)
    \/ \E r \in OneAtATime : update_service(r)
    \/ \E r \in OneAtATime : recv_update_package(r)
    \/ \E r \in OneAtATime : update_package(r)
    \/ \E r \in OneAtATime : recv_update_booking(r)
    \/ \E r \in OneAtATime : update_booking(r)
    \/ \E r \in OneAtATime : recv_update_bill(r)
    \/ \E r \in OneAtATime : update_bill(r)

SpecUpdate == Init /\ [][NextUpdate]_vars

\* ------------------------------------------------------------------ claims
\* The routes declared with admin=Depends(get_current_admin).
ProtectedOps ==
    {"change_password", "get_admins", "create_admin", "delete_admin", "update_hall",
     "create_service", "update_service", "delete_service",
     "create_package", "update_package", "delete_package",
     "create_shubh_date", "delete_shubh_date",
     "get_bookings", "create_booking", "update_booking", "delete_booking",
     "get_bills", "create_bill", "update_bill", "delete_bill",
     "update_settings", "upload_image"}

UpdateOps ==
    {"update_hall", "update_service", "update_package", "update_booking", "update_bill"}

IdsOf(coll) == [i \in 1..Len(coll) |-> coll[i].id]

\* The request in slot r completes its body in this step.
Completes(r, op) ==
    /\ reqs[r].op = op /\ reqs[r].pc = "body"
    /\ reqs'[r].pc = "idle" /\ phase' = "serving"

\* C1: no two Admin documents have the same username, in every reachable state
\* of the admins collection.
C1_UsernameUnique ==
    \A i, j \in 1..Len(admins) : admins[i].username = admins[j].username => i = j

\* C2: the settings collection never holds more than one document, and when a
\* GET /settings has been answered it holds exactly one, whose id is "settings".
C2_SettingsSingleton ==
    /\ Len(settings) <= 1
    /\ resp.op = "get_settings" =>
          Len(settings) = 1 /\ settings[1].id = "settings"

\* C3: an update leaves the id of every hall, service, package, booking and bill
\* document as it was, whatever the body.
C3_IdImmutable ==
    [][(\E r \in Reqs, op \in UpdateOps : Completes(r, op)) =>
          /\ IdsOf(halls') = IdsOf(halls)
          /\ IdsOf(services') = IdsOf(services)
          /\ IdsOf(packages') = IdsOf(packages)
          /\ IdsOf(bookings') = IdsOf(bookings)
          /\ IdsOf(bills') = IdsOf(bills)]_vars

\* A token the guard must refuse at this moment: malformed, wrongly signed,
\* expired, or with a subject that is the id of no Admin in the store.
BadToken(t) ==
    \/ t.fmt # "jwt"
    \/ t.sig # Sign(t.payload, SECRET_KEY)
    \/ t.payload.exp <= now
    \/ \A a \in Docs(admins) : a.id # t.payload.sub

\* C4: a request to a protected route with a bad token never reaches the route's
\* body: it is answered 401 and every collection of the store is as it was.
C4_GuardRejects ==
    [][sent' = sent + 1 =>
          /\ \A r \in Reqs :
                (reqs'[r] # reqs[r] /\ reqs'[r].op \in ProtectedOps)
                    => ~BadToken(reqs'[r].token)
          /\ (reqs' = reqs /\ resp'.op \in ProtectedOps)
                => (resp'.status = 401 /\ store' = store)]_vars

\* C4 happens: a token whose admin was deleted after it was issued is refused.
C4_Witness ==
    /\ resp.op \in ProtectedOps
    /\ resp.status = 401
    /\ resp.out = Detail("Admin not found")
    /\ resp.token \in issued

\* C5: a token that login issues at time T decodes successfully at every time t
\* with T <= t < T + 24h and fails as expired at every t >= T + 24h.
C5_TokenLifetime ==
    [][(sent' = sent + 1 /\ reqs' = reqs /\ resp'.op = "login" /\ resp'.status = 200) =>
          \A t \in now..(MaxClock + TOKEN_EXPIRE_HOURS + 1) :
              LET decoded == decode_token(resp'.out.token, t)
              IN IF t < now + TOKEN_EXPIRE_HOURS
                 THEN decoded.ok
                 ELSE ~decoded.ok /\ decoded.detail = "Token expired"]_vars

\* C5 happens: the guard refuses an issued token at its expiration time exactly.
C5_Witness ==
    /\ resp.op \in ProtectedOps
    /\ resp.out = Detail("Token expired")
    /\ resp.token \in issued
    /\ resp.token.payload.exp = now

\* C6: login answers 200 with a token exactly when some stored Admin has the
\* username given and a password_hash the password given verifies against; the
\* token's subject is that Admin's id and the response names only id, username
\* and hall_name; otherwise it answers 401.
C6_LoginIff ==
    \A username \in Usernames, password \in Passwords :
        LET res == login_result(username, password, admins, now)
            holders == {a \in Docs(admins) :
                           /\ a.username = username
                           /\ verify_password(password, a.password_hash)}
        IN /\ res.status = 200 <=> holders # {}
           /\ res.status # 200 => res.status = 401
           /\ res.status = 200 =>
                 /\ \E a \in holders : res.out.token.payload.sub = a.id
                 /\ DOMAIN res.out.admin = {"id", "username", "hall_name"}

\* C7: change-password answers 400 and leaves the admins as they were when the
\* old password does not verify against the hash stored for the acting admin;
\* otherwise it answers 200, after which login succeeds with the new password and
\* fails with the old one, and no other admin's record has changed.
C7_ChangePassword ==
    [][\A r \in Reqs :
          Completes(r, "change_password") =>
             LET me == reqs[r].admin.id
                 stored == find_one(admins, [id |-> me])
                 old == reqs[r].arg.old_password
                 new == reqs[r].arg.new_password
             IN Found(stored) =>
                   IF ~verify_password(old, stored.password_hash)
                   THEN resp'.status = 400 /\ admins' = admins
                   ELSE /\ resp'.status = 200
                        /\ login_result(stored.username, new, admins', now).status = 200
                        /\ old # new =>
                              login_result(stored.username, old, admins', now).status = 401
                        /\ \A i \in 1..Len(admins) :
                              admins[i].id # me => admins'[i] = admins[i]]_vars

\* C8: delete-admin on the acting admin's own id answers 400 and leaves the
\* admins as they were; on another id it answers 200, after which no Admin has
\* that id and every other Admin record is as it was.
C8_DeleteAdmin ==
    [][\A r \in Reqs :
          Completes(r, "delete_admin") =>
             LET admin_id == reqs[r].arg.admin_id
             IN IF admin_id = reqs[r].admin.id
                THEN /\ resp'.status = 400
                     /\ resp'.out = Detail("Cannot delete your own account")
                     /\ admins' = admins
                ELSE /\ resp'.status = 200
                     /\ ~Found(find_one(admins', [id |-> admin_id]))
                     /\ admins' = SelectSeq(admins, LAMBDA d : d.id # admin_id)]_vars

\* C8 happens: an admin has deleted another one and was then refused its own id.
C8_Witness ==
    /\ resp.op = "delete_admin"
    /\ resp.status = 400
    /\ Len(admins) = 1
    /\ admins[1].id = resp.token.payload.sub

IsPrefix(a, b) == Len(a) <= Len(b) /\ \A i \in 1..Len(a) : b[i] = a[i]

\* C9: a run of the seeder keeps every document that was there, a second run
\* right after it changes nothing, and on an empty store it leaves exactly the
\* admins om_admin and shiv_admin and exactly two halls.
C9_SeedIdempotent ==
    [][(phase = "startup" /\ phase' = "serving") =>
          LET again == seed(admins', halls', next_uuid', next_salt')
          IN /\ IsPrefix(admins, admins') /\ IsPrefix(halls, halls')
             /\ <<services', packages', shubh_dates', bookings', bills', settings'>>
                   = <<services, packages, shubh_dates, bookings, bills, settings>>
             /\ again.admins = admins' /\ again.halls = halls'
             /\ again.uuid = next_uuid' /\ again.salt = next_salt'
             /\ (admins = <<>> /\ halls = <<>>) =>
                   /\ [i \in 1..Len(admins') |-> admins'[i].username]
                         = <<"om_admin", "shiv_admin">>
                   /\ Len(halls') = 2]_vars

\* C9 happens: the seeder has run twice on a store that the first run seeded.
C9_Witness ==
    /\ boots = 2 /\ phase = "serving"
    /\ Len(admins) = 2 /\ Len(halls) = 2

\* The query parameters the public listing is asked with.
HallArgs == HallIdsSent \cup {Absent}

\* C10 as claimed: the public listing holds only bookings stored as "booked",
\* of the hall asked for when a hall_id is given, and none with a customer_phone.
C10_PublicListing ==
    \A hall_id \in HallArgs :
        LET listing == public_bookings(bookings, hall_id)
        IN \A i \in 1..Len(listing) :
              /\ listing[i].status = "booked"
              /\ hall_id # Absent => listing[i].hall_id = hall_id
              /\ "customer_phone" \notin DOMAIN listing[i]
              /\ \E b \in Docs(bookings) :
                    Project(b, {"customer_phone"}) = listing[i]

\* C10 as amended: ... of the hall asked for when a non-empty hall_id is given.
C10_PublicListingAmended ==
    \A hall_id \in HallArgs :
        LET listing == public_bookings(bookings, hall_id)
        IN \A i \in 1..Len(listing) :
              /\ listing[i].status = "booked"
              /\ Truthy(hall_id) => listing[i].hall_id = hall_id
              /\ "customer_phone" \notin DOMAIN listing[i]
              /\ \E b \in Docs(bookings) :
                    Project(b, {"customer_phone"}) = listing[i]

\* C10 happens: a listing was answered while a cancelled booking and a booked
\* one of another hall are stored.
C10_Witness ==
    /\ resp.op = "get_public_bookings"
    /\ Len(resp.out.bookings) > 0
    /\ \E b \in Docs(bookings) : b.status = "cancelled"
    /\ \E b \in Docs(bookings) : b.status = "booked" /\ b.hall_id = 3

\* The collection an update route writes to.
UpdateTarget(op) ==
    CASE op = "update_hall" -> halls
      [] op = "update_service" -> services
      [] op = "update_package" -> packages
      [] op = "update_booking" -> bookings
      [] op = "update_bill" -> bills

\* C11: an update whose path id is the id of no stored document of its
\* collection is answered 200 with the success message, and every collection is
\* as it was.
C11_UpdateMissingNoOp ==
    [][\A r \in Reqs, op \in UpdateOps :
          (/\ Completes(r, op)
           /\ ~Found(find_one(UpdateTarget(op), [id |-> reqs[r].arg.path_id])))
          => /\ resp'.status = 200
             /\ resp'.op = op
             /\ "message" \in DOMAIN resp'.out
             /\ store' = store]_vars

\* C11 happens: an update was answered while its collection holds no document,
\* and others do.
C11_Witness ==
    /\ resp.op = "update_bill" /\ resp.status = 200
    /\ Len(bills) = 0
    /\ Len(services) > 0

\* C12: when a PUT /settings completes, the document with id "settings" exists
\* and holds the body's signup_enabled, language and theme, which is what the
\* next GET /settings returns.
C12_UpdateUpserts ==
    [][\A r \in Reqs :
          Completes(r, "update_settings") =>
             LET body == reqs[r].arg
                 doc == find_one(settings', [id |-> "settings"])
             IN /\ Found(doc)
                /\ doc.signup_enabled = body.signup_enabled
                /\ doc.language = body.language
                /\ doc.theme = body.theme]_vars

\* C13: while the server is serving, the admins collection holds at least one
\* Admin, and some username and password log in.
C13_AdminsNeverEmpty ==
    phase = "serving" =>
        /\ Len(admins) >= 1
        /\ \E username \in Usernames, password \in Passwords :
              login_result(username, password, admins, now).status = 200

\* The request in slot r, past its guard, performs a write to the store in this
\* step.
Writes(r) ==
    /\ reqs[r].op \in ProtectedOps
    /\ reqs[r].pc \in {"body", "insert"}
    /\ reqs'[r] # reqs[r]
    /\ phase' = "serving"
    /\ store' # store

\* C14: whenever a protected operation writes to the store, the Admin its guard
\* resolved is still in the admins collection at that moment.
C14_WriterStillAdmin ==
    [][\A r \in Reqs :
          Writes(r) => Found(find_one(admins, [id |-> reqs[r].admin.id]))]_vars

====
